---------------------------- MODULE Spec2Model ----------------------------
(***************************************************************************)
(* A model of moviepy/tools.py: subprocess_call (the process invoker),     *)
(* cvsecs (the timecode normaliser) and find_extension over                *)
(* extensions_dict (the codec registry).                                   *)
(*                                                                         *)
(* subprocess_call is modelled line by line, with the child process as an  *)
(* environment action; cvsecs and find_extension are operators applied by  *)
(* one action each.  Python floats are modelled as exact rationals         *)
(* num/den; byte strings as sequences of integers 0..255; text as          *)
(* sequences of one-character strings.                                     *)
(***************************************************************************)
EXTENDS Integers, Sequences, FiniteSets, TLC

VARIABLES
    \* ---- subprocess_call ----
    pc,            \* position of the call in subprocess_call
    cmd,           \* argument: the command tokens
    verbose,       \* argument
    errorprint,    \* argument
    os_name,       \* os.name of the host
    popen_params,  \* the keyword arguments given to sp.Popen
    console,       \* what sys_write_flush has written, in order
    launches,      \* children launched by the current call
    child,         \* "none", "running" or "exited"
    returncode,    \* the child's exit status, once it has exited
    child_stderr,  \* the bytes the child wrote to its error stream
    err,           \* the bytes communicate() collected
    stderr_open,   \* proc.stderr is open
    proc_held,     \* the local name proc still refers to the Popen object
    outcome,       \* how the call ended
    \* ---- cvsecs ----
    time,          \* argument of the last cvsecs call
    parts,         \* how that argument was put together (history only)
    secs,          \* outcome of the last cvsecs call
    \* ---- find_extension ----
    extensions_dict, \* the module-level registry
    ext_loaded,      \* image extensions the module-level loop has added
    codec,           \* argument of the last find_extension call
    found,           \* outcome of the last find_extension call
    lookups          \* number of find_extension calls so far

vars == << pc, cmd, verbose, errorprint, os_name, popen_params, console,
           launches, child, returncode, child_stderr, err, stderr_open,
           proc_held, outcome, time, parts, secs, extensions_dict,
           ext_loaded, codec, found, lookups >>

procVars == << pc, cmd, verbose, errorprint, os_name, popen_params, console,
               launches, child, returncode, child_stderr, err, stderr_open,
               proc_held, outcome >>

timeVars == << time, parts, secs >>

extVars == << extensions_dict, ext_loaded, codec, found, lookups >>

-----------------------------------------------------------------------------
(* Bounds of the model *)

MaxTokens == 2

MaxErrLen == 2

MaxField == 2

MaxFrac == 3

MaxTuple == 4

MaxLookups == 4

-----------------------------------------------------------------------------
(* Generic helpers *)

RECURSIVE SeqsUpTo(_, _)
\* All sequences over S of length 0..n.
SeqsUpTo(S, n) ==
    IF n = 0 THEN { <<>> }
    ELSE LET shorter == SeqsUpTo(S, n - 1)
         IN  shorter \cup { Append(s, x) : s \in shorter, x \in S }

RECURSIVE Pow10(_)
Pow10(n) == IF n = 0 THEN 1 ELSE 10 * Pow10(n - 1)

-----------------------------------------------------------------------------
(* Outcomes of a call: a normal return or a raised exception *)

Returned == [kind |-> "return", exc |-> "", payload |-> <<>>]

Raised(e, p) == [kind |-> "raise", exc |-> e, payload |-> p]

NoOutcome == [kind |-> "none", exc |-> "", payload |-> <<>>]

-----------------------------------------------------------------------------
(* subprocess_call *)

Tokens == {"ffmpeg", "-y"}

Commands == SeqsUpTo(Tokens, MaxTokens) \ { <<>> }

\* Exit statuses a child can end with (negative: killed by a signal).
ExitCodes == {0, 1, 2, -9}

\* Bytes a child may write: 'b', the two bytes of U+00E9, and 0xFF.
StderrBytes == {98, 195, 169, 255}

StderrOutputs == SeqsUpTo(StderrBytes, MaxErrLen)

RECURSIVE Join(_)
\* " ".join(cmd)
Join(toks) ==
    IF Len(toks) = 0 THEN ""
    ELSE IF Len(toks) = 1 THEN toks[1]
    ELSE toks[1] \o " " \o Join(Tail(toks))

RunningLine(toks) == "\n[MoviePy] Running:\n>>> " \o Join(toks)

ErrorLine == "\n[MoviePy] This command returned an error !"

SuccessLine == "\n... command successful.\n"

\* verbose_print(flag, s): writes s to the console only if flag is true.
verbose_print(flag, s) == IF flag THEN Append(console, s) ELSE console

\* Bounds of the second byte of a multi-byte UTF-8 sequence led by c.
Utf8SecondLow(c) == IF c = 224 THEN 160 ELSE IF c = 240 THEN 144 ELSE 128

Utf8SecondHigh(c) == IF c = 237 THEN 159 ELSE IF c = 244 THEN 143 ELSE 191

IsCont(b) == b >= 128 /\ b <= 191

\* Number of bytes of the sequence a lead byte announces; 0 for a byte that
\* cannot lead one.
Utf8Width(c) ==
    IF c < 128 THEN 1
    ELSE IF c >= 194 /\ c <= 223 THEN 2
    ELSE IF c >= 224 /\ c <= 239 THEN 3
    ELSE IF c >= 240 /\ c <= 244 THEN 4
    ELSE 0

RECURSIVE Utf8From(_, _)
\* bytes.decode('utf8') from position i: [ok, text], text a sequence of code
\* points; ok is FALSE where Python raises UnicodeDecodeError.
Utf8From(b, i) ==
    IF i > Len(b) THEN [ok |-> TRUE, text |-> <<>>]
    ELSE
      LET c == b[i]
          w == Utf8Width(c)
          wellFormed ==
              /\ w > 0
              /\ i + w - 1 <= Len(b)
              /\ w >= 2 => /\ b[i + 1] >= Utf8SecondLow(c)
                           /\ b[i + 1] <= Utf8SecondHigh(c)
              /\ w >= 3 => IsCont(b[i + 2])
              /\ w >= 4 => IsCont(b[i + 3])
          cp == IF w = 1 THEN c
                ELSE IF w = 2 THEN (c - 192) * 64 + (b[i + 1] - 128)
                ELSE IF w = 3 THEN (c - 224) * 4096 + (b[i + 1] - 128) * 64
                                   + (b[i + 2] - 128)
                ELSE (c - 240) * 262144 + (b[i + 1] - 128) * 4096
                     + (b[i + 2] - 128) * 64 + (b[i + 3] - 128)
      IN  IF ~wellFormed THEN [ok |-> FALSE, text |-> <<>>]
          ELSE LET rest == Utf8From(b, i + w)
               IN  [ok |-> rest.ok,
                    text |-> IF rest.ok THEN <<cp>> \o rest.text ELSE <<>>]

\* err.decode('utf8')
Utf8Decode(b) == Utf8From(b, 1)

\* Lines 31-36: the keyword arguments of sp.Popen.
PopenParams(name) ==
    [stdout |-> "DEVNULL", stderr |-> "PIPE", stdin |-> "DEVNULL",
     creationflags |-> IF name = "nt" THEN 134217728 ELSE 0]

ProcInit ==
    /\ pc = "idle"
    /\ cmd = <<>>
    /\ verbose = FALSE
    /\ errorprint = FALSE
    /\ os_name = "posix"
    /\ popen_params = PopenParams("posix")
    /\ console = <<>>
    /\ launches = 0
    /\ child = "none"
    /\ returncode = 0
    /\ child_stderr = <<>>
    /\ err = <<>>
    /\ stderr_open = FALSE
    /\ proc_held = FALSE
    /\ outcome = NoOutcome

\* A caller calls subprocess_call(cmd, verbose, errorprint).
Call ==
    /\ pc = "idle"
    /\ \E c \in Commands, v \in BOOLEAN, e \in BOOLEAN, n \in {"posix", "nt"} :
          /\ cmd' = c
          /\ verbose' = v
          /\ errorprint' = e
          /\ os_name' = n
    /\ pc' = "L29"
    /\ UNCHANGED << popen_params, console, launches, child, returncode,
                    child_stderr, err, stderr_open, proc_held, outcome >>
    /\ UNCHANGED << timeVars, extVars >>

\* Line 29: verbose_print(verbose, "Running: ...")
PrintRunning ==
    /\ pc = "L29"
    /\ console' = verbose_print(verbose, RunningLine(cmd))
    /\ pc' = "L31"
    /\ UNCHANGED << cmd, verbose, errorprint, os_name, popen_params, launches,
                    child, returncode, child_stderr, err, stderr_open,
                    proc_held, outcome >>
    /\ UNCHANGED << timeVars, extVars >>

\* The next position after the child has been launched.
AfterPopen == "L40"

\* Lines 31-38: build popen_params and launch the child.
Popen ==
    /\ pc = "L31"
    /\ popen_params' = PopenParams(os_name)
    /\ launches' = launches + 1
    /\ child' = "running"
    /\ stderr_open' = TRUE
    /\ proc_held' = TRUE
    /\ pc' = AfterPopen
    /\ UNCHANGED << cmd, verbose, errorprint, os_name, console, returncode,
                    child_stderr, err, outcome >>
    /\ UNCHANGED << timeVars, extVars >>

\* The environment: the child writes to its error stream and exits.
ChildExits ==
    /\ child = "running"
    /\ \E rc \in ExitCodes, out \in StderrOutputs :
          /\ returncode' = rc
          /\ child_stderr' = out
    /\ child' = "exited"
    /\ UNCHANGED << pc, cmd, verbose, errorprint, os_name, popen_params,
                    console, launches, err, stderr_open, proc_held, outcome >>
    /\ UNCHANGED << timeVars, extVars >>

\* A variant of CommunicateReady: the exit status is polled without waiting.
CommunicateReadyNoWait == TRUE

\* Whether communicate() can return: it blocks until the child has exited.
CommunicateReady == child = "exited"

\* Line 40: out, err = proc.communicate()
Communicate ==
    /\ pc = "L40"
    /\ CommunicateReady
    /\ err' = child_stderr
    /\ pc' = "L41"
    /\ UNCHANGED << cmd, verbose, errorprint, os_name, popen_params, console,
                    launches, child, returncode, child_stderr, stderr_open,
                    proc_held, outcome >>
    /\ UNCHANGED << timeVars, extVars >>

\* Line 43: if proc.returncode:
Failed(rc) == rc # 0

\* Lines 41-43: proc.stderr.close(), then the branch on proc.returncode.
CloseStderr ==
    /\ pc = "L41"
    /\ stderr_open' = FALSE
    /\ pc' = IF Failed(returncode) THEN "L44" ELSE "L47"
    /\ UNCHANGED << cmd, verbose, errorprint, os_name, popen_params, console,
                    launches, child, returncode, child_stderr, err, proc_held,
                    outcome >>
    /\ UNCHANGED << timeVars, extVars >>

\* A variant of ErrorLineFlag: the error line gated by verbose.
ErrorLineFlagVerbose == verbose

\* The flag that gates the error line of line 44.
ErrorLineFlag == errorprint

\* Line 44: verbose_print(errorprint, "This command returned an error !")
PrintError ==
    /\ pc = "L44"
    /\ console' = verbose_print(ErrorLineFlag, ErrorLine)
    /\ pc' = "L45"
    /\ UNCHANGED << cmd, verbose, errorprint, os_name, popen_params, launches,
                    child, returncode, child_stderr, err, stderr_open,
                    proc_held, outcome >>
    /\ UNCHANGED << timeVars, extVars >>

\* Line 45: raise IOError(err.decode('utf8')); the decoding itself raises
\* UnicodeDecodeError on bytes that are not UTF-8.  The function is left
\* here: line 49 is not executed.
RaiseIOError ==
    /\ pc = "L45"
    /\ LET d == Utf8Decode(err)
       IN  outcome' = IF d.ok THEN Raised("IOError", d.text)
                      ELSE Raised("UnicodeDecodeError", <<>>)
    /\ pc' = "done"
    /\ UNCHANGED << cmd, verbose, errorprint, os_name, popen_params, console,
                    launches, child, returncode, child_stderr, err,
                    stderr_open, proc_held >>
    /\ UNCHANGED << timeVars, extVars >>

\* Line 47: verbose_print(verbose, "... command successful.")
PrintSuccess ==
    /\ pc = "L47"
    /\ console' = verbose_print(verbose, SuccessLine)
    /\ pc' = "L49"
    /\ UNCHANGED << cmd, verbose, errorprint, os_name, popen_params, launches,
                    child, returncode, child_stderr, err, stderr_open,
                    proc_held, outcome >>
    /\ UNCHANGED << timeVars, extVars >>

\* Line 49: del proc, then the function returns None.
DelProc ==
    /\ pc = "L49"
    /\ proc_held' = FALSE
    /\ outcome' = Returned
    /\ pc' = "done"
    /\ UNCHANGED << cmd, verbose, errorprint, os_name, popen_params, console,
                    launches, child, returncode, child_stderr, err,
                    stderr_open >>
    /\ UNCHANGED << timeVars, extVars >>

\* The caller has seen the outcome; the next call starts from scratch.
NextCall ==
    /\ pc = "done"
    /\ pc' = "idle"
    /\ cmd' = <<>>
    /\ verbose' = FALSE
    /\ errorprint' = FALSE
    /\ os_name' = "posix"
    /\ popen_params' = PopenParams("posix")
    /\ console' = <<>>
    /\ launches' = 0
    /\ child' = "none"
    /\ returncode' = 0
    /\ child_stderr' = <<>>
    /\ err' = <<>>
    /\ stderr_open' = FALSE
    /\ proc_held' = FALSE
    /\ outcome' = NoOutcome
    /\ UNCHANGED << timeVars, extVars >>

-----------------------------------------------------------------------------
(* cvsecs *)

\* A Python number is modelled exactly, as int + num/den with den > 0 and
\* 0 <= num < den (15.4 is 15 + 4/10); num/den is not reduced.
Num(i, n, d) == [int |-> i + (n \div d), num |-> n % d, den |-> d]

NumAdd(a, b) ==
    IF a.den = b.den THEN Num(a.int + b.int, a.num + b.num, a.den)
    ELSE Num(a.int + b.int, a.num * b.den + b.num * a.den, a.den * b.den)

NumScale(k, a) == Num(k * a.int, k * a.num, a.den)

\* Python values given to cvsecs.
Str(s) == [tag |-> "str", s |-> s]

Tuple(items) == [tag |-> "tuple", items |-> items]

Number(r) == [tag |-> "number", int |-> r.int, num |-> r.num, den |-> r.den]

\* Outcomes of cvsecs: a returned number or a raised exception.
Value(r) ==
    [kind |-> "return", exc |-> "", int |-> r.int, num |-> r.num, den |-> r.den]

Fault(e) == [kind |-> "raise", exc |-> e, int |-> 0, num |-> 0, den |-> 1]

NotCalled == [kind |-> "none", exc |-> "", int |-> 0, num |-> 0, den |-> 1]

DigitChars == {"0", "1", "2", "3", "4", "5", "6", "7", "8", "9"}

DigitValue(c) ==
    CASE c = "0" -> 0 [] c = "1" -> 1 [] c = "2" -> 2 [] c = "3" -> 3
      [] c = "4" -> 4 [] c = "5" -> 5 [] c = "6" -> 6 [] c = "7" -> 7
      [] c = "8" -> 8 [] c = "9" -> 9

\* is_string(obj)
is_string(obj) == obj.tag = "str"

\* c in s, for a character c
Contains(s, c) == \E i \in 1..Len(s) : s[i] = c

\* Line 74: the characters the class [,|.] accepts.
SepClass == {",", "|", "."}

RECURSIVE RunEnd(_, _)
\* \d+ is greedy: the position after the longest run of digits from i (i
\* itself when there is none).  Every \d+ of expr is followed by a character
\* that is no digit, or by the end of expr, so giving digits back never turns
\* a failed match into a match and never changes a group.
RunEnd(s, i) ==
    IF i <= Len(s) /\ s[i] \in DigitChars THEN RunEnd(s, i + 1) ELSE i

\* expr = (\d+):(\d+):(\d+)[,|.](\d+) matched at position i:
\* [ok, groups, next], next the position after the match.
MatchAt(s, i) ==
    LET e1 == RunEnd(s, i)
        e2 == RunEnd(s, e1 + 1)
        e3 == RunEnd(s, e2 + 1)
        e4 == RunEnd(s, e3 + 1)
        ok == /\ e1 > i
              /\ e1 <= Len(s) /\ s[e1] = ":"
              /\ e2 > e1 + 1
              /\ e2 <= Len(s) /\ s[e2] = ":"
              /\ e3 > e2 + 1
              /\ e3 <= Len(s) /\ s[e3] \in SepClass
              /\ e4 > e3 + 1
    IN  [ok |-> ok,
         groups |-> IF ok THEN << SubSeq(s, i, e1 - 1),
                                  SubSeq(s, e1 + 1, e2 - 1),
                                  SubSeq(s, e2 + 1, e3 - 1),
                                  SubSeq(s, e3 + 1, e4 - 1) >>
                    ELSE <<>>,
         next |-> e4]

RECURSIVE FindAllFrom(_, _)
\* re.findall(expr, s) from position i: the groups of every match, found
\* left to right without overlap.
FindAllFrom(s, i) ==
    IF i > Len(s) THEN <<>>
    ELSE LET m == MatchAt(s, i)
         IN  IF m.ok THEN << m.groups >> \o FindAllFrom(s, m.next)
             ELSE FindAllFrom(s, i + 1)

FindAll(s) == FindAllFrom(s, 1)

RECURSIVE ParseInt(_)
\* int(ds) for a string of digits (float(ds) has the same value).
ParseInt(ds) ==
    IF Len(ds) = 0 THEN 0
    ELSE 10 * ParseInt(SubSeq(ds, 1, Len(ds) - 1)) + DigitValue(ds[Len(ds)])

\* Lines 72-73: the text the expression is matched against.
Amended(s) ==
    IF ~Contains(s, ",") /\ ~Contains(s, ".") THEN s \o << ".", "0" >> ELSE s

\* A variant of Fraction: the digits are always read as tenths.
FractionTenths(f) == Num(0, ParseInt(f), 10)

\* Line 80: nums[3] / (10 ** len(finds[3]))
Fraction(f) == Num(0, ParseInt(f), Pow10(Len(f)))

\* A variant of SecondsOf: the fraction is subtracted.
SecondsOfMinus(finds) ==
    NumAdd(Num(3600 * ParseInt(finds[1]) + 60 * ParseInt(finds[2])
               + ParseInt(finds[3]), 0, 1),
           NumScale(-1, Num(0, ParseInt(finds[4]), Pow10(Len(finds[4])))))

\* Lines 77-80, from the four groups of the first match.
SecondsOf(finds) ==
    NumAdd(Num(3600 * ParseInt(finds[1]) + 60 * ParseInt(finds[2])
               + ParseInt(finds[3]), 0, 1),
           Fraction(finds[4]))

\* A variant of TupleSeconds: a 2-tuple is read as (hours, minutes).
TupleSecondsHrMn(items) ==
    LET hr  == items[1]
        mn  == items[2]
        sec == IF Len(items) = 3 THEN items[3] ELSE Num(0, 0, 1)
    IN  NumAdd(NumAdd(NumScale(3600, hr), NumScale(60, mn)), sec)

\* Lines 82-87: the tuple branch.
TupleSeconds(items) ==
    LET hr  == IF Len(items) = 3 THEN items[1] ELSE Num(0, 0, 1)
        mn  == IF Len(items) = 3 THEN items[2] ELSE items[1]
        sec == IF Len(items) = 3 THEN items[3] ELSE items[2]
    IN  NumAdd(NumAdd(NumScale(3600, hr), NumScale(60, mn)), sec)

\* cvsecs(t)
cvsecs(t) ==
    IF is_string(t) THEN
        LET all == FindAll(Amended(t.s))
        IN  IF Len(all) = 0 THEN Fault("IndexError")
            ELSE Value(SecondsOf(all[1]))
    ELSE IF t.tag = "tuple" THEN
        IF Len(t.items) \in {2, 3} THEN Value(TupleSeconds(t.items))
        ELSE Fault("UnboundLocalError")
    ELSE Value(Num(t.int, t.num, t.den))

\* ---- the inputs the model gives to cvsecs ----

FieldDigits == {"0", "1"}

FracDigits == {"0", "5"}

\* The digit strings for hours, minutes and seconds.
Fields == SeqsUpTo(FieldDigits, MaxField) \ { <<>> }

\* The digit strings after the separator (possibly none).
Fracs == SeqsUpTo(FracDigits, MaxFrac)

\* The text between the seconds and the fraction.
Seps == { <<".">>, <<",">>, <<"|">> }

\* H ":" M ":" S sep F
Build(h, m, s, sep, f) == h \o <<":">> \o m \o <<":">> \o s \o sep \o f

\* How a text H ":" M ":" S sep F was put together.
HmsParts(h, m, s, sep, f) ==
    [kind |-> "hms", h |-> h, m |-> m, s |-> s, sep |-> sep, f |-> f]

\* Texts of other shapes: "", "abc", "01:33", "01:01:33;5", "-01:01:33.5",
\* ":01:33.5", "01:01:33|5", "1:1:1.5 2:2:2,05", "01.5", "1:2".
OtherTexts ==
    { <<>>,
      << "a", "b", "c" >>,
      << "0", "1", ":", "3", "3" >>,
      << "0", "1", ":", "0", "1", ":", "3", "3", ";", "5" >>,
      << "-", "0", "1", ":", "0", "1", ":", "3", "3", ".", "5" >>,
      << ":", "0", "1", ":", "3", "3", ".", "5" >>,
      << "0", "1", ":", "0", "1", ":", "3", "3", "|", "5" >>,
      << "1", ":", "1", ":", "1", ".", "5", " ",
         "2", ":", "2", ":", "2", ",", "0", "5" >>,
      << "0", "1", ".", "5" >>,
      << "1", ":", "2" >> }

FreeParts(k) == [kind |-> k, h |-> <<>>, m |-> <<>>, s |-> <<>>,
                 sep |-> <<>>, f |-> <<>>]

\* -1, 0, 1, 2 and 21.5
TupleItems ==
    { Num(-1, 0, 1), Num(0, 0, 1), Num(1, 0, 1), Num(2, 0, 1), Num(21, 5, 10) }

\* -3, 0, 15.4, 90 and -0.5
NumberValues ==
    { Num(-3, 0, 1), Num(0, 0, 1), Num(15, 4, 10), Num(90, 0, 1),
      Num(0, -5, 10) }

TimeInit ==
    /\ time = Number(Num(0, 0, 1))
    /\ parts = FreeParts("none")
    /\ secs = NotCalled

\* The call cvsecs(t), for an argument t put together as p.
Apply(t, p) ==
    /\ time' = t
    /\ parts' = p
    /\ secs' = cvsecs(t)

\* A caller calls cvsecs(t): t is a text H:M:S sep F, a bare text H:M:S, a
\* text of another shape, a tuple or a number.
CvsecsCall ==
    /\ secs = NotCalled
    /\ \/ \E h \in Fields, m \in Fields, s \in Fields, sep \in Seps, f \in Fracs :
              Apply(Str(Build(h, m, s, sep, f)), HmsParts(h, m, s, sep, f))
       \/ \E h \in Fields, m \in Fields, s \in Fields :
              Apply(Str(Build(h, m, s, <<>>, <<>>)),
                    HmsParts(h, m, s, <<>>, <<>>))
       \/ \E s \in OtherTexts : Apply(Str(s), FreeParts("text"))
       \/ \E items \in SeqsUpTo(TupleItems, MaxTuple) :
              Apply(Tuple(items), FreeParts("tuple"))
       \/ \E r \in NumberValues : Apply(Number(r), FreeParts("number"))
    /\ UNCHANGED << procVars, extVars >>

-----------------------------------------------------------------------------
(* extensions_dict and find_extension *)

\* Lines 137-147: the registry as the dictionary literal builds it.
BaseExtensions ==
    ("mp4"  :> [type |-> "video", codec |-> << "libx264", "libmpeg4" >>]) @@
    ("ogv"  :> [type |-> "video", codec |-> << "libtheora" >>]) @@
    ("webm" :> [type |-> "video", codec |-> << "libvpx" >>]) @@
    ("avi"  :> [type |-> "video"]) @@
    ("mov"  :> [type |-> "video"]) @@
    ("ogg"  :> [type |-> "audio", codec |-> << "libvorbis" >>]) @@
    ("mp3"  :> [type |-> "audio", codec |-> << "libmp3lame" >>]) @@
    ("wav"  :> [type |-> "audio", codec |-> << "pcm_s16le", "pcm_s32le" >>]) @@
    ("m4a"  :> [type |-> "audio", codec |-> << "libfdk_aac" >>])

\* Line 149: the extensions the module-level loop adds.
ImageExts == << "jpg", "jpeg", "png", "bmp", "tiff" >>

\* x in lst, for a list
InList(x, lst) == \E i \in 1..Len(lst) : lst[i] = x

\* A variant of Lists: any entry with a codec list is taken.
ListsAny(infos, c) == "codec" \in DOMAIN infos

\* Line 154: ('codec' in infos) and codec in infos['codec']
Lists(infos, c) == "codec" \in DOMAIN infos /\ InList(c, infos.codec)

ExtReturn(e) == [kind |-> "return", exc |-> "", ext |-> e]

ExtRaise(x) == [kind |-> "raise", exc |-> x, ext |-> ""]

ExtNotCalled == [kind |-> "none", exc |-> "", ext |-> ""]

\* Line 156: no entry lists the codec.
NoMatch == ExtRaise("ValueError")

\* find_extension(c) over the registry d: the outcomes the loop can have.
\* The loop returns the first matching entry in the dictionary's iteration
\* order, which the language does not fix: any matching entry can be first.
find_extension(d, c) ==
    LET matching == { e \in DOMAIN d : Lists(d[e], c) }
    IN  IF matching = {} THEN { NoMatch }
        ELSE { ExtReturn(e) : e \in matching }

\* The names the model looks up: every codec of the registry, every
\* extension, and names that are neither.
CodecNames ==
    UNION { { BaseExtensions[e].codec[i] : i \in 1..Len(BaseExtensions[e].codec) } :
              e \in { x \in DOMAIN BaseExtensions :
                        "codec" \in DOMAIN BaseExtensions[x] } }
    \cup DOMAIN BaseExtensions
    \cup { ImageExts[i] : i \in 1..Len(ImageExts) }
    \cup { "no-such-codec", "", "video", "codec", "LIBX264" }

ExtInit ==
    /\ extensions_dict = BaseExtensions
    /\ ext_loaded = 0
    /\ codec = ""
    /\ found = ExtNotCalled
    /\ lookups = 0

\* Lines 149-150: one iteration of the module-level loop.
LoadImageExt ==
    /\ ext_loaded < Len(ImageExts)
    /\ ext_loaded' = ext_loaded + 1
    /\ extensions_dict' =
          (ImageExts[ext_loaded + 1] :> [type |-> "image"]) @@ extensions_dict
    /\ UNCHANGED << codec, found, lookups >>
    /\ UNCHANGED << procVars, timeVars >>

\* A caller calls find_extension(c); the function exists once the module
\* has been loaded.
FindExtension ==
    /\ ext_loaded = Len(ImageExts)
    /\ lookups < MaxLookups
    /\ \E c \in CodecNames :
          /\ codec' = c
          /\ found' \in find_extension(extensions_dict, c)
    /\ lookups' = lookups + 1
    /\ UNCHANGED << extensions_dict, ext_loaded >>
    /\ UNCHANGED << procVars, timeVars >>

-----------------------------------------------------------------------------
(* Specifications *)

Init == ProcInit /\ TimeInit /\ ExtInit

\* subprocess_call and its child.
Next ==
    \/ Call
    \/ PrintRunning
    \/ Popen
    \/ ChildExits
    \/ Communicate
    \/ CloseStderr
    \/ PrintError
    \/ RaiseIOError
    \/ PrintSuccess
    \/ DelProc
    \/ NextCall

Spec == Init /\ [][Next]_vars

\* cvsecs.
TimeNext == CvsecsCall

SpecTime == Init /\ [][TimeNext]_vars

\* The loading of the registry and find_extension.
ExtNext ==
    \/ LoadImageExt
    \/ FindExtension

SpecExt == Init /\ [][ExtNext]_vars

-----------------------------------------------------------------------------
(* Claims about subprocess_call, checked under Spec *)

\* The console after line 29: the Running line, if verbose.
RunPart == IF verbose THEN << RunningLine(cmd) >> ELSE <<>>

\* C1: when a call has ended, exit code 0 means it returned normally, and
\* any other exit code means it raised IOError (the ExternalProcessError)
\* carrying the text the child wrote to its error stream, whatever verbose
\* and errorprint are.
C1_ExitCodeDecidesOutcome ==
    pc = "done" =>
        IF returncode = 0 THEN outcome = Returned
        ELSE /\ outcome.kind = "raise"
             /\ outcome.exc = "IOError"
             /\ Utf8Decode(child_stderr).ok
             /\ outcome.payload = Utf8Decode(child_stderr).text

\* C3: when a call that launched a child has ended, by return or by raise,
\* the error-stream handle has been closed and the process handle has been
\* released.
C3_HandlesReleasedOnExit ==
    (pc = "done" /\ launches > 0) => (~stderr_open /\ ~proc_held)

\* C5: the console holds exactly: the Running line iff verbose, written
\* before the child is launched; then, only after the child has terminated,
\* the success line iff exit code 0 and verbose, or the error line iff exit
\* code nonzero and errorprint, the error line being written before the
\* raise.
C5_ConsoleLines ==
    /\ pc \in {"idle", "L29"} => console = <<>>
    /\ pc \in {"L31", "L40", "L41", "L44", "L47"} => console = RunPart
    /\ pc = "L31" => (launches = 0 /\ child = "none")
    /\ Len(console) > Len(RunPart) => child = "exited"
    /\ pc = "L45" =>
          /\ console = RunPart \o (IF errorprint THEN << ErrorLine >> ELSE <<>>)
          /\ returncode # 0
          /\ outcome = NoOutcome
    /\ pc = "L49" =>
          /\ console = RunPart \o (IF verbose THEN << SuccessLine >> ELSE <<>>)
          /\ returncode = 0
    /\ pc = "done" =>
          console = RunPart \o
              (IF returncode = 0
               THEN (IF verbose THEN << SuccessLine >> ELSE <<>>)
               ELSE (IF errorprint THEN << ErrorLine >> ELSE <<>>))

\* C5 witness: a quiet call with errorprint whose child failed has written
\* the error line alone and has raised.
C5_Witness ==
    /\ pc = "done"
    /\ ~verbose
    /\ errorprint
    /\ returncode = 1
    /\ console = << ErrorLine >>
    /\ outcome.kind = "raise"

\* C10: a call launches one child and never a second one; it moves past
\* communicate(), and decides its outcome, only when that child has exited
\* and its error stream has been collected; no call has ended while its
\* child is running.
C10_OneChildAwaited ==
    /\ launches <= 1
    /\ pc \in {"L41", "L44", "L45", "L47", "L49", "done"} =>
          /\ launches = 1
          /\ child = "exited"
          /\ err = child_stderr
    /\ outcome # NoOutcome => pc = "done"
    /\ child = "running" => (pc = "L40" /\ outcome = NoOutcome)

\* C10 witness: a call whose child exited with a nonzero status has raised
\* after one launch.
C10_Witness ==
    /\ pc = "done"
    /\ returncode = 2
    /\ launches = 1
    /\ child = "exited"
    /\ outcome.kind = "raise"

-----------------------------------------------------------------------------
(* Claims about cvsecs, checked under SpecTime *)

RECURSIVE Val(_)
\* The number a string of decimal digits denotes, most significant first.
Val(ds) ==
    IF ds = <<>> THEN 0
    ELSE DigitValue(Head(ds)) * Pow10(Len(ds) - 1) + Val(Tail(ds))

\* a and b denote the same number.
SameNumber(a, b) ==
    (a.int - b.int) * a.den * b.den = b.num * a.den - a.num * b.den

\* Whole seconds of hours, minutes and seconds given as digit strings.
WholeSeconds(h, m, s) == 3600 * Val(h) + 60 * Val(m) + Val(s)

AllDigits(s, from, to) == \A i \in from..to : s[i] \in DigitChars

\* The grammar (\d+):(\d+):(\d+)[.,](\d+) matches somewhere in s: two colons
\* and a '.' or ',' with digits between them, a digit before the first colon
\* and a digit after the separator.
MatchesTimecodeGrammar(s) ==
    \E a \in 2..Len(s) :
        /\ s[a] = ":"
        /\ s[a - 1] \in DigitChars
        /\ \E b \in (a + 2)..Len(s) :
              /\ s[b] = ":"
              /\ AllDigits(s, a + 1, b - 1)
              /\ \E c \in (b + 2)..(Len(s) - 1) :
                    /\ s[c] \in {".", ","}
                    /\ AllDigits(s, b + 1, c - 1)
                    /\ s[c + 1] \in DigitChars

\* C2: a text that does not match the timecode grammar, after the optional
\* ".0" has been appended, makes cvsecs fail with the typed error
\* MalformedTimecode, never with an indexing fault.
C2_MalformedIsTyped ==
    (secs # NotCalled /\ time.tag = "str"
       /\ ~MatchesTimecodeGrammar(Amended(time.s)))
    => (secs.kind = "raise" /\ secs.exc = "MalformedTimecode")

\* C4: for H:M:S followed by '.' or ',' and digits F, cvsecs returns
\* 3600*H + 60*M + S + F/10^len(F), the same for '.' and ','; for a bare
\* H:M:S it returns 3600*H + 60*M + S.
C4_TimecodeValue ==
    (secs # NotCalled /\ parts.kind = "hms") =>
        /\ (parts.sep \in { <<".">>, <<",">> } /\ parts.f # <<>>) =>
              /\ secs.kind = "return"
              /\ SameNumber(secs, [int |-> WholeSeconds(parts.h, parts.m, parts.s),
                                   num |-> Val(parts.f),
                                   den |-> Pow10(Len(parts.f))])
        /\ parts.sep = <<>> =>
              /\ secs.kind = "return"
              /\ SameNumber(secs, [int |-> WholeSeconds(parts.h, parts.m, parts.s),
                                   num |-> 0, den |-> 1])

\* C4 witness: "01:01:10,050" has been converted to 3670.050.
C4_Witness ==
    /\ time = Str(<< "0", "1", ":", "0", "1", ":", "1", "0", ",",
                     "0", "5", "0" >>)
    /\ secs.kind = "return"
    /\ SameNumber(secs, [int |-> 3670, num |-> 50, den |-> 1000])

\* C6: cvsecs returns a number unchanged, 60*m + s for a 2-tuple (m, s) and
\* 3600*h + 60*m + s for a 3-tuple (h, m, s).
C6_NonTextValue ==
    /\ (secs # NotCalled /\ time.tag = "number") =>
          /\ secs.kind = "return"
          /\ secs.int = time.int
          /\ secs.num = time.num
          /\ secs.den = time.den
    /\ (secs # NotCalled /\ time.tag = "tuple" /\ Len(time.items) = 2) =>
          LET m == time.items[1]
              s == time.items[2]
          IN  /\ secs.kind = "return"
              /\ SameNumber(secs,
                    [int |-> 60 * m.int + s.int,
                     num |-> 60 * m.num * s.den + s.num * m.den,
                     den |-> m.den * s.den])
    /\ (secs # NotCalled /\ time.tag = "tuple" /\ Len(time.items) = 3) =>
          LET h == time.items[1]
              m == time.items[2]
              s == time.items[3]
          IN  /\ secs.kind = "return"
              /\ SameNumber(secs,
                    [int |-> 3600 * h.int + 60 * m.int + s.int,
                     num |-> 3600 * h.num * m.den * s.den
                             + 60 * m.num * h.den * s.den
                             + s.num * h.den * m.den,
                     den |-> h.den * m.den * s.den])

\* C6 witness: cvsecs((1, 21.5)) has returned 81.5.
C6_Witness ==
    /\ time = Tuple(<< Num(1, 0, 1), Num(21, 5, 10) >>)
    /\ secs.kind = "return"
    /\ SameNumber(secs, [int |-> 81, num |-> 5, den |-> 10])

\* int + num/den with 0 <= num < den is negative exactly when int is.
NonNegative(a) == a.int >= 0 /\ a.num >= 0 /\ a.num < a.den

AllNonNegative(items) == \A i \in 1..Len(items) : NonNegative(items[i])

\* C7, as claimed: whenever cvsecs returns for a text or for a 2-tuple or
\* 3-tuple, the returned number is non-negative.
C7_NonNegative ==
    (secs.kind = "return" /\ time.tag \in {"str", "tuple"}) => NonNegative(secs)

\* C7, amended: whenever cvsecs returns for a text, or for a 2-tuple or
\* 3-tuple none of whose components is negative, the returned number is
\* non-negative.
C7_NonNegativeAmended ==
    (/\ secs.kind = "return"
     /\ \/ time.tag = "str"
        \/ (time.tag = "tuple" /\ AllNonNegative(time.items)))
    => NonNegative(secs)

\* C7 witness: cvsecs((2, 1, 0)) has returned 7260.
C7_Witness ==
    /\ time = Tuple(<< Num(2, 0, 1), Num(1, 0, 1), Num(0, 0, 1) >>)
    /\ secs.kind = "return"
    /\ SameNumber(secs, [int |-> 7260, num |-> 0, den |-> 1])

\* C9: a text whose character between the seconds and the fraction is
\* neither '.' nor ',' (the vertical bar of "01:01:33|5") is rejected, not
\* converted to a number.
C9_OnlyDotOrComma ==
    (/\ secs # NotCalled
     /\ parts.kind = "hms"
     /\ parts.sep \notin { <<".">>, <<",">>, <<>> })
    => secs.kind = "raise"

-----------------------------------------------------------------------------
(* Claims about find_extension, checked under SpecExt *)

Codecs(infos) == { infos.codec[i] : i \in 1..Len(infos.codec) }

\* The entries of the registry whose codec list holds c.
Listing(c) ==
    { e \in DOMAIN extensions_dict :
        /\ "codec" \in DOMAIN extensions_dict[e]
        /\ c \in Codecs(extensions_dict[e]) }

C8_Result ==
    found # ExtNotCalled =>
        /\ Listing(codec) # {} => (found.kind = "return"
                                     /\ found.ext \in Listing(codec))
        /\ Listing(codec) = {} => found = ExtRaise("ValueError")
        /\ codec = "libx264" => found = ExtReturn("mp4")
        /\ codec \in {"avi", "mov", "jpg", "jpeg", "png", "bmp", "tiff"}
              => found = ExtRaise("ValueError")

\* C8: find_extension returns an extension whose entry lists the codec when
\* there is one ("libx264" gives "mp4") and raises ValueError (UnknownCodec)
\* when there is none, also for a name that is an extension without a codec
\* list; a lookup leaves the registry as it was.
C8_Lookup ==
    /\ [] C8_Result
    /\ [][lookups' # lookups => extensions_dict' = extensions_dict]_vars

\* C8 witness: after the lookup of "libx264", the lookup of "avi" has raised.
C8_Witness ==
    /\ lookups >= 2
    /\ codec = "avi"
    /\ found = ExtRaise("ValueError")

=============================================================================
